---- MODULE Spec2Model ----
(***************************************************************************)
(* Model of src/NFT_CSVcreation.py: the resumable paginated collector       *)
(* (fetch_nft_sales, parse_sale_data, collect_and_process_nft_sales, main,  *)
(* in both variants the file holds) and the Seaport transaction decoder     *)
(* (decode_transaction, process_transaction_batch).                         *)
(***************************************************************************)
EXTENDS Integers, Sequences, FiniteSets, TLC

(***************************************************************************)
(* Bounds of the model.                                                     *)
(***************************************************************************)
\* largest total_records a run is started with
MaxTarget == 6
\* largest batch_size
MaxBatch == 2
\* largest save_interval
MaxInterval == 2
\* most records the remote subgraph holds
MaxRemote == 4
\* most records of the remote subgraph that are not well-formed
MaxIrregular == 1
\* most runs of main (the first one and the restarts)
MaxRuns == 2
\* most logs in a transaction receipt
MaxLogs == 3
\* most faults of the environment in one execution: transport errors, failed
\* writes of the checkpoint, kills of the process
MaxFaults == 1
\* largest itemType an event item carries (Seaport's ItemType enum ends at 5)
MaxItemType == 6
\* most items in the offer, and in the consideration, of an event
MaxItems == 2
\* largest amount of a consideration item, in wei
MaxAmount == 2
\* most rows of the DataFrame given to prepare_data_for_llm
MaxRows == 4
\* largest sample_size
MaxSample == 3
\* most transaction hashes given to process_transaction_batch
MaxHashes == 3

(***************************************************************************)
(* Program constants.                                                       *)
(***************************************************************************)
\* max_errors, the consecutive-failure threshold (line 124)
max_errors == 5

\* a key that the raw GraphQL record does not hold
Missing == "<missing>"
\* what pandas.read_csv gives for an empty cell
NaN == "nan"

VARIABLES
    variant,          \* 1: lines 1-355, 2: lines 357-701 of the source
    total_records,    \* parameters of collect_and_process_nft_sales
    batch_size,
    save_interval,
    remote,           \* the records the subgraph serves, in its stable order
    temp_file,        \* temp_nft_transactions.csv: [exists, rows]
    output_file,      \* nft_transactions.csv: [exists, rows]
    all_sales,        \* locals of collect_and_process_nft_sales
    processed_count,
    error_count,
    skip,
    pc,               \* position of the process
    runs,             \* number of runs of main started so far
    fetchLog,         \* history: one entry per page request of the current run
    stopReason,       \* history: why the loop of the current run ended
    history,          \* history: facts about the runs so far
    receipt,          \* decoder: the logs of the transaction's receipt
    tx_found,         \* decoder: the node knows the transaction
    etherscan,        \* decoder: how requests.get to Etherscan ends (line 729)
    transaction_info, \* decoder: the outcome of decode_transaction
    tx_batch,         \* process_transaction_batch: its arguments and locals
    sampler           \* prepare_data_for_llm: its arguments and locals

collectorVars == <<variant, total_records, batch_size, save_interval, remote,
                   temp_file, output_file, all_sales, processed_count,
                   error_count, skip, pc, runs, fetchLog, stopReason, history>>
decoderVars == <<receipt, tx_found, etherscan, transaction_info>>
analysisVars == <<decoderVars, tx_batch, sampler>>
vars == <<collectorVars, analysisVars>>

(***************************************************************************)
(* Raw records of the subgraph.  orderHash identifies the record; the kind  *)
(* says which of its fields are well-formed.                                *)
(***************************************************************************)
RawKinds == {"ok", "nohash", "badts"}

RawSale(i, kind) ==
    [orderHash |-> i,
     transactionHash |-> IF kind = "nohash" THEN Missing ELSE "0xabc",
     blockTimestamp |-> IF kind = "badts" THEN "abc" ELSE "1700000000"]

\* dict.get(key, default)
Get(v, default) == IF v = Missing THEN default ELSE v

\* int(s): the strings int() accepts, and the value it gives
IsIntString(s) == s \in {"0", "1700000000"}
IntOf(s) == IF s = "0" THEN 0 ELSE 1700000000

None == [none |-> TRUE]

\* parse_sale_data without its try/except: the record, or Raised
Raised == [raised |-> TRUE]
ParseFields(sale) ==
    LET transaction_hash == Get(sale.transactionHash, "")
        ts == Get(sale.blockTimestamp, "0")
    IN  IF IsIntString(ts)
        THEN [transaction_hash |-> transaction_hash,
              order_hash |-> sale.orderHash,
              timestamp |-> IntOf(ts)]
        ELSE Raised

\* mutation of parse_sale_data: a record without transactionHash is dropped too
parse_sale_data_requires_hash(sale) ==
    IF ParseFields(sale) = Raised \/ sale.transactionHash = Missing
    THEN None
    ELSE ParseFields(sale)

\* variant 1 (lines 69-110): an exception gives None
parse_sale_data(sale) ==
    IF ParseFields(sale) = Raised THEN None ELSE ParseFields(sale)


\* variant 2 (lines 421-464) has no try/except: the exception propagates
parse_sale_data2(sale) == ParseFields(sale)

(***************************************************************************)
(* fetch_nft_sales(first, skip): the page of the remote source at offset    *)
(* skip, or the empty list when the request failed.  outcome is what the    *)
(* network did: "ok", "fail" (non-200 status, GraphQL errors, and in        *)
(* variant 1 any exception), "raise" (variant 2: requests.post raised).     *)
(***************************************************************************)
Min(a, b) == IF a < b THEN a ELSE b

fetch_nft_sales(first, skip_, outcome) ==
    IF outcome = "ok"
    THEN SubSeq(remote, skip_ + 1, Min(skip_ + first, Len(remote)))
    ELSE <<>>

\* lines 156-160: the records of the batch that parse_sale_data returned
ParsedBatch(batch) == [j \in 1..Len(batch) |-> parse_sale_data(batch[j])]
Kept(batch) == SelectSeq(ParsedBatch(batch), LAMBDA r : r # None)

\* lines 505-508: variant 2 appends whatever parse_sale_data returned
BatchRaises2(batch) == \E j \in 1..Len(batch) : parse_sale_data2(batch[j]) = Raised
Kept2(batch) == [j \in 1..Len(batch) |-> parse_sale_data2(batch[j])]

\* mutation of NewRecords: the counter is advanced for dropped records too
NewRecordsCountsAll(batch) == Len(batch)

\* lines 155-160: new_records, counted beside the append
NewRecords(batch) ==
    Cardinality({j \in 1..Len(batch) : parse_sale_data(batch[j]) # None})

\* lines 504-508: variant 2 counts every record of the batch
NewRecords2(batch) == Len(batch)

\* line 162 (510): processed_count += new_records
NewCount(count, new_records) == count + new_records

\* mutation of NextErrorCount: only a page that yields a record resets it
NextErrorCountKeptOnly(ec, batch) == IF Kept(batch) = <<>> THEN ec + 1 ELSE 0

\* line 146 / line 152
NextErrorCount(ec, batch) == IF batch = <<>> THEN ec + 1 ELSE 0

\* mutation of BreakerTrips: the breaker trips one failure early
BreakerTripsEarly(ec) == ec >= max_errors - 1

\* line 147
BreakerTrips(ec) == ec >= max_errors

\* line 166 (514)
ShouldSave(count) == count % save_interval = 0 \/ count >= total_records

\* mutation of RangeContinues: the range includes its stop value
RangeContinuesInclusive(s) == s <= total_records

\* line 140 (495): range(processed_count, total_records, batch_size)
RangeContinues(s) == s < total_records

\* mutation of NextSkip: the range steps by one record
NextSkipOne(s) == s + 1

\* the step of the range is batch_size
NextSkip(s) == s + batch_size

\* DataFrame.to_csv(file, index=False): the file is overwritten with all the
\* rows; NaN and the empty string are both written as an empty cell
ToCsvRow(r) ==
    [r EXCEPT !.transaction_hash = IF @ = NaN THEN "" ELSE @]
ToCsv(rows) ==
    [exists |-> TRUE, rows |-> [j \in 1..Len(rows) |-> ToCsvRow(rows[j])]]
NoFile == [exists |-> FALSE, rows |-> <<>>]

\* pd.read_csv(...).to_dict('records'): an empty cell comes back as NaN
ReadCsvRow(r) ==
    [r EXCEPT !.transaction_hash = IF @ = "" THEN NaN ELSE @]
ReadCsv(file) == [j \in 1..Len(file.rows) |-> ReadCsvRow(file.rows[j])]

\* the remote sources of the model: orderHash i at position i
Remotes ==
    UNION {{[i \in 1..n |-> RawSale(i, k[i])] : k \in
              {f \in [1..n -> RawKinds] :
                 Cardinality({i \in 1..n : f[i] # "ok"}) <= MaxIrregular}}
           : n \in 0..MaxRemote}

NoHistory == [faults |-> 0, kills |-> 0, prevKilled |-> FALSE, loaded |-> -1]

DecoderIdle ==
    /\ receipt = <<>>
    /\ tx_found = FALSE
    /\ etherscan = "ok"
    /\ transaction_info = [state |-> "none"]

\* process_transaction_batch and prepare_data_for_llm have not been called
BatchIdle == tx_batch = [state |-> "none"]
SamplerIdle == sampler = [state |-> "none"]
AnalysisIdle == DecoderIdle /\ BatchIdle /\ SamplerIdle

Init ==
    /\ variant \in {1, 2}
    /\ total_records \in 1..MaxTarget
    /\ batch_size \in 1..MaxBatch
    /\ save_interval \in 1..MaxInterval
    /\ remote \in Remotes
    /\ temp_file = NoFile
    /\ output_file = NoFile
    /\ all_sales = <<>>
    /\ processed_count = 0
    /\ error_count = 0
    /\ skip = 0
    /\ pc = "idle"
    /\ runs = 0
    /\ fetchLog = <<>>
    /\ stopReason = "none"
    /\ history = NoHistory
    /\ AnalysisIdle

params == <<variant, total_records, batch_size, save_interval, remote>>

(***************************************************************************)
(* main calls collect_and_process_nft_sales: lines 121-137 (478-492), up to *)
(* the for statement.  read_csv of a file without a column raises           *)
(* EmptyDataError, which nothing catches.  A range that is empty from the   *)
(* start takes the function to its return.                                  *)
(***************************************************************************)
StartCollect ==
    /\ pc = "idle"
    /\ runs < MaxRuns
    /\ runs' = runs + 1
    /\ fetchLog' = <<>>
    /\ error_count' = 0
    /\ IF temp_file.exists /\ temp_file.rows = <<>>
       THEN /\ pc' = "raised"
            /\ stopReason' = "error"
            /\ all_sales' = <<>>
            /\ processed_count' = 0
            /\ skip' = 0
            /\ history' = [history EXCEPT !.loaded = -1]
       ELSE LET loaded == IF temp_file.exists THEN ReadCsv(temp_file) ELSE <<>>
            IN  /\ all_sales' = loaded
                /\ processed_count' = Len(loaded)
                /\ skip' = Len(loaded)
                /\ history' = [history EXCEPT
                                 !.loaded = IF temp_file.exists THEN Len(loaded) ELSE -1]
                /\ IF RangeContinues(Len(loaded))
                   THEN pc' = "loop" /\ stopReason' = "none"
                   ELSE pc' = "returned" /\ stopReason' = "exhausted"
    /\ UNCHANGED <<params, temp_file, output_file, analysisVars>>


\* one entry of fetchLog: the request and what the iteration did with it
LogEntry(batch, kept, new_records, saved, raised) ==
    [skip |-> skip,
     page |-> batch,
     countBefore |-> processed_count,
     salesBefore |-> all_sales,
     errorsBefore |-> error_count,
     countAfter |-> NewCount(processed_count, new_records),
     salesAfter |-> all_sales \o kept,
     saved |-> saved,
     raised |-> raised]

\* the process has died: what it held in memory is gone
MemoryLost ==
    /\ all_sales' = <<>>
    /\ processed_count' = 0
    /\ error_count' = 0
    /\ skip' = 0
    /\ fetchLog' = <<>>

\* the for statement takes the next element of the range, or the loop ends
\* and the function returns (lines 179-188, 522-526)
Advance ==
    /\ skip' = NextSkip(skip)
    /\ IF RangeContinues(NextSkip(skip))
       THEN pc' = "loop" /\ stopReason' = "none"
       ELSE pc' = "returned" /\ stopReason' = "exhausted"

\* a transport error or a failed write counts as one fault of the environment
Injected(outcome) == IF outcome = "ok" THEN 0 ELSE 1

\* the iteration gets as far as DataFrame.to_csv (line 168, 516)
SaveReached(batch, count) == batch # <<>> /\ ShouldSave(count)

(***************************************************************************)
(* One iteration of the loop of variant 1, lines 140-177.  to_csv may raise *)
(* (the file cannot be opened for writing): the except clause of line 175   *)
(* catches it, the file is as it was and the loop goes on.                  *)
(***************************************************************************)
LoopIteration ==
    /\ variant = 1
    /\ pc = "loop"
    /\ \E outcome \in {"ok", "fail"}, save \in {"ok", "raise"} :
         LET batch == fetch_nft_sales(batch_size, skip, outcome)
             kept == Kept(batch)
             count == NewCount(processed_count, NewRecords(batch))
             saved == ShouldSave(count) /\ save = "ok"
             raised == ShouldSave(count) /\ save = "raise"
             injected == Injected(outcome) + Injected(IF raised THEN "raise" ELSE "ok")
         IN  /\ SaveReached(batch, count) \/ save = "ok"
             /\ history.faults + history.kills + injected <= MaxFaults
             /\ history' = [history EXCEPT !.faults = @ + injected]
             /\ error_count' = NextErrorCount(error_count, batch)
             /\ IF batch = <<>>
                THEN /\ fetchLog' = Append(fetchLog, LogEntry(batch, <<>>, 0, FALSE, FALSE))
                     /\ UNCHANGED <<all_sales, processed_count, temp_file>>
                     /\ IF BreakerTrips(NextErrorCount(error_count, batch))
                        THEN /\ pc' = "returned"
                             /\ stopReason' = "breaker"
                             /\ skip' = skip
                        ELSE Advance
                ELSE /\ all_sales' = all_sales \o kept
                     /\ processed_count' = count
                     /\ temp_file' = IF saved
                                     THEN ToCsv(all_sales \o kept)
                                     ELSE temp_file
                     /\ fetchLog' = Append(fetchLog,
                                           LogEntry(batch, kept, NewRecords(batch),
                                                    saved, raised))
                     /\ Advance
    /\ UNCHANGED <<params, output_file, runs, analysisVars>>

(***************************************************************************)
(* One iteration of the loop of variant 2, lines 495-520: an empty page     *)
(* ends the loop, and an exception of requests.post, of parse_sale_data or  *)
(* of to_csv ends the process.                                              *)
(***************************************************************************)
LoopIteration2 ==
    /\ variant = 2
    /\ pc = "loop"
    /\ \E outcome \in {"ok", "fail", "raise"}, save \in {"ok", "raise"} :
         LET batch == fetch_nft_sales(batch_size, skip, outcome)
             kept == Kept2(batch)
             count == NewCount(processed_count, NewRecords2(batch))
             saveRaises == /\ outcome # "raise"
                           /\ ~BatchRaises2(batch)
                           /\ SaveReached(batch, count)
                           /\ save = "raise"
             injected == Injected(outcome) + Injected(IF saveRaises THEN "raise" ELSE "ok")
         IN  /\ saveRaises \/ save = "ok"
             /\ history.faults + history.kills + injected <= MaxFaults
             /\ history' = [history EXCEPT !.faults = @ + injected]
             /\ IF outcome = "raise" \/ BatchRaises2(batch) \/ saveRaises
                THEN /\ pc' = "raised"
                     /\ stopReason' = "error"
                     /\ MemoryLost
                     /\ UNCHANGED temp_file
                ELSE IF batch = <<>>
                THEN /\ pc' = "returned"
                     /\ stopReason' = "nodata"
                     /\ fetchLog' = Append(fetchLog, LogEntry(batch, <<>>, 0, FALSE, FALSE))
                     /\ UNCHANGED <<all_sales, processed_count, error_count,
                                    temp_file, skip>>
                ELSE /\ all_sales' = all_sales \o kept
                     /\ UNCHANGED error_count
                     /\ processed_count' = count
                     /\ temp_file' = IF ShouldSave(count)
                                     THEN ToCsv(all_sales \o kept)
                                     ELSE temp_file
                     /\ fetchLog' = Append(fetchLog,
                                           LogEntry(batch, kept, NewRecords2(batch),
                                                    ShouldSave(count), FALSE))
                     /\ Advance
    /\ UNCHANGED <<params, output_file, runs, analysisVars>>

(***************************************************************************)
(* The rest of main after the collector returned, lines 333-352 (681-697).  *)
(* Variant 1 returns at once on an empty result; in variant 2               *)
(* prepare_data_for_llm sorts the empty frame by a column it does not have, *)
(* and the KeyError ends the process before the file is removed.            *)
(***************************************************************************)
MainFinish ==
    /\ pc = "returned"
    /\ IF all_sales = <<>>
       THEN /\ pc' = IF variant = 1 THEN "main_done" ELSE "raised"
            /\ output_file' = IF variant = 1 THEN output_file ELSE ToCsv(<<>>)
            /\ UNCHANGED temp_file
       ELSE /\ pc' = "main_done"
            /\ output_file' = ToCsv(all_sales)
            /\ temp_file' = NoFile
    /\ UNCHANGED <<params, all_sales, processed_count, error_count, skip, runs,
                   fetchLog, stopReason, history, analysisVars>>

(***************************************************************************)
(* The process is interrupted (killed, KeyboardInterrupt) between two       *)
(* iterations, or after the collector returned and before main removes the  *)
(* temp file: what it held in memory is lost, the files stay.               *)
(***************************************************************************)
Interrupt ==
    /\ pc \in {"loop", "returned"}
    /\ history.faults + history.kills < MaxFaults
    /\ history' = [history EXCEPT !.kills = @ + 1]
    /\ pc' = "killed"
    /\ stopReason' = "killed"
    /\ MemoryLost
    /\ UNCHANGED <<params, temp_file, output_file, runs, analysisVars>>

\* the operator starts the program again after the process died
Rerun ==
    /\ pc \in {"killed", "raised"}
    /\ runs < MaxRuns
    /\ pc' = "idle"
    /\ history' = [history EXCEPT !.prevKilled = (pc = "killed")]
    /\ stopReason' = "none"
    /\ UNCHANGED <<params, temp_file, output_file, all_sales, processed_count,
                   error_count, skip, runs, fetchLog, analysisVars>>

Next ==
    \/ StartCollect
    \/ LoopIteration
    \/ LoopIteration2
    \/ MainFinish
    \/ Interrupt
    \/ Rerun

Spec == Init /\ [][Next]_vars

(***************************************************************************)
(* The program is started where a killed run left a checkpoint: the run had *)
(* merged its first page and written the checkpoint (lines 162-168) when    *)
(* the process was killed.  Such a start is a state of Spec after Interrupt *)
(* and Rerun; here the faults of the environment are counted from it on.    *)
(***************************************************************************)
FirstPage == fetch_nft_sales(batch_size, 0, "ok")
FirstKept == IF variant = 1 THEN Kept(FirstPage) ELSE Kept2(FirstPage)

InitResumed ==
    /\ variant \in {1, 2}
    /\ total_records \in 1..MaxTarget
    /\ batch_size \in 1..MaxBatch
    /\ save_interval \in 1..MaxInterval
    /\ remote \in Remotes
    /\ FirstPage # <<>>
    /\ variant = 2 => ~BatchRaises2(FirstPage)
    /\ ShouldSave(NewCount(0, Len(FirstKept)))
    /\ RangeContinues(NextSkip(0))
    /\ temp_file = ToCsv(FirstKept)
    /\ output_file = NoFile
    /\ all_sales = <<>>
    /\ processed_count = 0
    /\ error_count = 0
    /\ skip = 0
    /\ pc = "idle"
    /\ runs = 0
    /\ fetchLog = <<>>
    /\ stopReason = "none"
    /\ history = [NoHistory EXCEPT !.prevKilled = TRUE]
    /\ AnalysisIdle

SpecResumed == InitResumed /\ [][Next]_vars


(***************************************************************************)
(* The transaction decoder, decode_transaction (lines 746-841).             *)
(* A log of the receipt is its address and whether                          *)
(* OrderFulfilled().process_log accepts it; orderHash is the event's.       *)
(***************************************************************************)
\* seaport_address as the contract holds it (line 878), and in lower case
SeaportAddress == "0x00000000000000ADc04C56Bf30aC9d3c0aAF14dC"
SeaportLower == "0x00000000000000adc04c56bf30ac9d3c0aaf14dc"
OtherAddress == "0x7be8076f4ea4a4ad08075c2508e481d6c946d12b"

\* str.lower() on the addresses of the model
Lower(a) == IF a = SeaportAddress THEN SeaportLower ELSE a

LogAddresses == {SeaportAddress, SeaportLower, OtherAddress}

\* the items of an OrderFulfilled event (SEAPORT_ABI): SpentItem in the
\* offer, ReceivedItem in the consideration
ItemTypes == 0..MaxItemType
NftToken == "0xBC4CA0EdA7647A8aB7C2061c2E118A18a936f13D"
ZeroAddress == "0x0000000000000000000000000000000000000000"
Recipients == {"0xSeller", "0xFeeRecipient"}
SpentItems == [itemType : ItemTypes, token : {NftToken}, identifier : {7}, amount : {1}]
ReceivedItems == [itemType : ItemTypes, token : {ZeroAddress}, identifier : {0},
                  amount : 1..MaxAmount, recipient : Recipients]
Offers == UNION {[1..n -> SpentItems] : n \in 0..MaxItems}
Considerations == UNION {[1..n -> ReceivedItems] : n \in 0..MaxItems}

Logs == [address : LogAddresses, decodes : BOOLEAN, orderHash : {1},
         offer : {<<>>}, consideration : {<<>>}]

Receipts == UNION {[1..n -> Logs] : n \in 0..MaxLogs}

\* lines 716-733: NFT_COLLECTIONS is empty (line 713), so every call goes to
\* Etherscan; requests.get and response.json() are not inside a try, and an
\* answer is not used: the address itself is returned
get_collection_name(token_address, lookup) ==
    IF lookup = "raise" THEN Raised ELSE [returned |-> token_address]

\* lines 736-743: item_types.get(item_type, f"UNKNOWN ({item_type})")
get_item_type_name(item_type) ==
    CASE item_type = 0 -> "NATIVE"
      [] item_type = 1 -> "ERC20"
      [] item_type = 2 -> "ERC721"
      [] OTHER -> "UNKNOWN (" \o ToString(item_type) \o ")"

\* line 802: item_type in [2, 3, 4, 5]
IsNftType(item_type) == item_type \in {2, 3, 4, 5}

\* lines 792-809: the item_info of one offer item
OfferItemInfo(item) ==
    LET item_info == [item_type |-> item.itemType,
                      item_type_name |-> get_item_type_name(item.itemType),
                      token_address |-> item.token,
                      token_id |-> item.identifier,
                      amount |-> item.amount]
    IN  IF IsNftType(item.itemType)
        THEN [is_nft |-> TRUE,
              collection_name |-> get_collection_name(item.token, "ok").returned,
              opensea_link |-> "https://opensea.io/assets/" \o item.token
                                  \o "/" \o ToString(item.identifier)] @@ item_info
        ELSE [is_nft |-> FALSE] @@ item_info

\* the offer item whose name lookup raises, if any: the loop of line 791 ends there
LookupRaises(offer, lookup) ==
    \E j \in 1..Len(offer) :
        IsNftType(offer[j].itemType)
           /\ get_collection_name(offer[j].token, lookup) = Raised

\* a decimal number mantissa * 10^exponent
Zero == [mantissa |-> 0, exponent |-> 0]
Plus(a, b) ==
    IF a.mantissa = 0 THEN b
    ELSE IF b.mantissa = 0 THEN a
    ELSE [mantissa |-> a.mantissa + b.mantissa, exponent |-> a.exponent]

\* w3.from_wei(number, unit): the number divided by 10^18 ('ether'), 10^9 ('gwei')
UnitDecimals(unit) == IF unit = "ether" THEN 18 ELSE 9
from_wei(number, unit) == [mantissa |-> number, exponent |-> 0 - UnitDecimals(unit)]

\* mutation of PaidInEther: every consideration item is added to the total
PaidInEtherAlways(item_type) == TRUE

\* line 827: item_type in [0, 1]
PaidInEther(item_type) == item_type \in {0, 1}

\* lines 816-831: the item_info of one consideration item
ConsiderationItemInfo(item) ==
    LET item_info == [item_type |-> item.itemType,
                      item_type_name |-> get_item_type_name(item.itemType),
                      token_address |-> item.token,
                      token_id |-> item.identifier,
                      amount |-> item.amount,
                      recipient |-> item.recipient]
    IN  IF PaidInEther(item.itemType)
        THEN [amount_eth |-> from_wei(item.amount, "ether")] @@ item_info
        ELSE item_info

RECURSIVE TotalEthValue(_)
\* lines 812, 827-830: total_eth_value over the consideration
TotalEthValue(consideration) ==
    IF consideration = <<>>
    THEN Zero
    ELSE LET n == Len(consideration)
             before == TotalEthValue(SubSeq(consideration, 1, n - 1))
         IN  IF PaidInEther(consideration[n].itemType)
             THEN Plus(before, from_wei(consideration[n].amount, "ether"))
             ELSE before

\* lines 767-775: the logs of the Seaport contract that decode as OrderFulfilled
OrderFulfilledEvents(logs) ==
    SelectSeq(logs, LAMBDA l : Lower(l.address) = Lower(SeaportAddress) /\ l.decodes)

\* lines 749-841: get_transaction raises TransactionNotFound; line 778 takes
\* order_fulfilled_events[0], an IndexError on the empty list; an exception
\* of get_collection_name (line 804) is not caught
decode_transaction(found, logs, lookup) ==
    IF ~found
    THEN [state |-> "raised", error |-> "TransactionNotFound"]
    ELSE IF OrderFulfilledEvents(logs) = <<>>
    THEN [state |-> "raised", error |-> "IndexError"]
    ELSE LET event_data == OrderFulfilledEvents(logs)[1]
         IN  IF LookupRaises(event_data.offer, lookup)
             THEN [state |-> "raised", error |-> "RequestException"]
             ELSE [state |-> "returned",
                   has_order_fulfilled |-> TRUE,
                   order_hash |-> event_data.orderHash,
                   total_price_eth |-> TotalEthValue(event_data.consideration),
                   nft_items |-> [j \in 1..Len(event_data.offer) |->
                                     OfferItemInfo(event_data.offer[j])],
                   payment_items |-> [j \in 1..Len(event_data.consideration) |->
                                     ConsiderationItemInfo(event_data.consideration[j])]]

CollectorIdle ==
    /\ variant = 1
    /\ total_records = 1
    /\ batch_size = 1
    /\ save_interval = 1
    /\ remote = <<>>
    /\ temp_file = NoFile
    /\ output_file = NoFile
    /\ all_sales = <<>>
    /\ processed_count = 0
    /\ error_count = 0
    /\ skip = 0
    /\ pc = "idle"
    /\ runs = 0
    /\ fetchLog = <<>>
    /\ stopReason = "none"
    /\ history = NoHistory

InitDecoder ==
    /\ CollectorIdle
    /\ receipt \in Receipts
    /\ tx_found \in BOOLEAN
    /\ etherscan = "ok"
    /\ transaction_info = [state |-> "none"]
    /\ BatchIdle
    /\ SamplerIdle

DecodeTransaction ==
    /\ transaction_info.state = "none"
    /\ transaction_info' = decode_transaction(tx_found, receipt, etherscan)
    /\ UNCHANGED <<collectorVars, receipt, tx_found, etherscan, tx_batch, sampler>>

NextDecoder == DecodeTransaction

SpecDecoder == InitDecoder /\ [][NextDecoder]_vars

\* the transaction exists and its receipt holds one OrderFulfilled log of
\* Seaport; either the offer or the consideration of the event varies
EventLog(offer, consideration) ==
    [address |-> SeaportAddress, decodes |-> TRUE, orderHash |-> 1,
     offer |-> offer, consideration |-> consideration]

OneNft == <<[itemType |-> 2, token |-> NftToken, identifier |-> 7, amount |-> 1]>>
OnePayment == <<[itemType |-> 0, token |-> ZeroAddress, identifier |-> 0,
                 amount |-> 1, recipient |-> "0xSeller"]>>

InitItems ==
    /\ CollectorIdle
    /\ tx_found = TRUE
    /\ etherscan \in {"ok", "raise"}
    /\ \/ \E offer \in Offers : receipt = <<EventLog(offer, OnePayment)>>
       \/ \E consideration \in Considerations :
             receipt = <<EventLog(OneNft, consideration)>>
    /\ transaction_info = [state |-> "none"]
    /\ BatchIdle
    /\ SamplerIdle

SpecItems == InitItems /\ [][NextDecoder]_vars


(***************************************************************************)
(* prepare_data_for_llm (lines 273-289, 613-635).  A row of the DataFrame   *)
(* is its index label and its timestamp; two rows may hold equal values.    *)
(***************************************************************************)
Timestamps == {1700000000, 1700000060}
DataFrames ==
    UNION {{[i \in 1..n |-> [index |-> i - 1, timestamp |-> t[i]]] :
               t \in [1..n -> Timestamps]} : n \in 0..MaxRows}

\* the orders of positions 1..n in which every position occurs once
Orders(n) == {p \in [1..n -> 1..n] : \A i, j \in 1..n : i # j => p[i] # p[j]}

\* sort_values("timestamp", ascending=False): the rows by descending
\* timestamp; the default sort is not stable, rows of equal timestamp come
\* in any order
sort_values(df) ==
    {[i \in 1..Len(df) |-> df[p[i]]] : p \in
        {q \in Orders(Len(df)) :
           \A i, j \in 1..Len(df) :
              i < j => df[q[i]].timestamp >= df[q[j]].timestamp}}

\* line 277: the column transaction_index = range(1, len + 1)
WithTransactionIndex(df) ==
    [i \in 1..Len(df) |-> [index |-> df[i].index,
                           timestamp |-> df[i].timestamp,
                           transaction_index |-> i]]

\* DataFrame.head(k)
head(df, k) == SubSeq(df, 1, Min(k, Len(df)))

\* mutation of iloc_from: the rows are sampled from the whole DataFrame
iloc_from_start(df, k) == df

\* DataFrame.iloc[k:]
iloc_from(df, k) == SubSeq(df, k + 1, Len(df))

\* DataFrame.sample(k): k rows drawn without replacement, in the order drawn
sample(df, k) ==
    {[i \in 1..k |-> df[c[i]]] : c \in
        {d \in [1..k -> 1..Len(df)] : \A i, j \in 1..k : i # j => d[i] # d[j]}}

\* lines 280-287: the samples the function can return for a sorted DataFrame
Select(sorted, sample_size) ==
    IF Len(sorted) > sample_size
    THEN LET recent_records == Min(sample_size \div 2, Len(sorted))
             recent_df == head(sorted, recent_records)
         IN  {recent_df \o older_df : older_df \in
                 sample(iloc_from(sorted, recent_records),
                        sample_size - recent_records)}
    ELSE {sorted}

prepare_data_for_llm(sales_df, sample_size) ==
    UNION {Select(WithTransactionIndex(sorted), sample_size) :
              sorted \in sort_values(sales_df)}

InitSample ==
    /\ CollectorIdle
    /\ DecoderIdle
    /\ BatchIdle
    /\ \E df \in DataFrames, size \in 0..MaxSample :
          sampler = [state |-> "called", sales_df |-> df, sample_size |-> size]

PrepareDataForLlm ==
    /\ sampler.state = "called"
    /\ \E llm_sales \in prepare_data_for_llm(sampler.sales_df, sampler.sample_size) :
          sampler' = [state |-> "returned",
                      sales_df |-> sampler.sales_df,
                      sample_size |-> sampler.sample_size,
                      llm_sales |-> llm_sales]
    /\ UNCHANGED <<collectorVars, decoderVars, tx_batch>>

NextSample == PrepareDataForLlm

SpecSample == InitSample /\ [][NextSample]_vars


(***************************************************************************)
(* process_transaction_batch (lines 869-925).  The node knows two           *)
(* transactions with an OrderFulfilled event of Seaport and one without     *)
(* any log; it does not know the fourth hash.                               *)
(***************************************************************************)
TxHashes == {"0xa9dfe4c8", "0xb7c1d2e3", "0x0000beef", "0x0000dead"}

Chain(tx_hash) ==
    CASE tx_hash = "0xa9dfe4c8" ->
            [found |-> TRUE, logs |-> <<EventLog(OneNft, OnePayment)>>]
      [] tx_hash = "0xb7c1d2e3" ->
            [found |-> TRUE, logs |-> <<EventLog(OneNft, OnePayment \o OnePayment)>>]
      [] tx_hash = "0x0000beef" -> [found |-> TRUE, logs |-> <<>>]
      [] OTHER -> [found |-> FALSE, logs |-> <<>>]

\* line 886: decode_transaction(tx_hash, w3, seaport_contract); the record
\* holds the hash (line 756)
DecodeHash(tx_hash, lookup) ==
    LET info == decode_transaction(Chain(tx_hash).found, Chain(tx_hash).logs, lookup)
    IN  IF info.state = "raised" THEN info ELSE [hash |-> tx_hash] @@ info

\* dict.get(key, default) on a record of the model
DictGet(d, key, default) == IF key \in DOMAIN d THEN d[key] ELSE default

\* lines 896-915: the simplified record of one decoded transaction (the
\* fields of the model); decode_transaction sets no nft_* key
SimplifiedRecord(tx) ==
    [hash |-> DictGet(tx, "hash", ""),
     has_nft_trade |-> DictGet(tx, "has_order_fulfilled", FALSE),
     price_eth |-> DictGet(tx, "total_price_eth", ""),
     nft_token_address |-> DictGet(tx, "nft_token_address", ""),
     nft_collection |-> DictGet(tx, "nft_collection", "")]

\* mutation of Propagates: a failed decode is recorded and the loop goes on
PropagatesNever(tx_info) == FALSE

\* line 886 is not inside a try: an exception of decode_transaction leaves
\* process_transaction_batch
Propagates(tx_info) == tx_info.state = "raised"

\* line 920: if output_file (None and "" are falsy)
Truthy(output_file_arg) == output_file_arg # ""

InitBatch ==
    /\ CollectorIdle
    /\ receipt = <<>>
    /\ tx_found = FALSE
    /\ etherscan \in {"ok", "raise"}
    /\ transaction_info = [state |-> "none"]
    /\ SamplerIdle
    /\ \E n \in 0..MaxHashes :
          \E hashes \in [1..n -> TxHashes], file \in {"", "nft_transactions.csv"} :
             tx_batch = [state |-> "loop",
                         tx_hashes |-> hashes,
                         output_file |-> file,
                         all_transactions |-> <<>>,
                         decoded |-> <<>>,
                         sink |-> NoFile]

\* one iteration of the for statement of lines 883-892
ProcessTransaction ==
    /\ tx_batch.state = "loop"
    /\ Len(tx_batch.decoded) < Len(tx_batch.tx_hashes)
    /\ LET tx_hash == tx_batch.tx_hashes[Len(tx_batch.decoded) + 1]
           tx_info == DecodeHash(tx_hash, etherscan)
       IN  tx_batch' =
             IF Propagates(tx_info)
             THEN [tx_batch EXCEPT !.state = "raised",
                                   !.decoded = Append(@, tx_hash),
                                   !.all_transactions = <<>>]
             ELSE [tx_batch EXCEPT !.decoded = Append(@, tx_hash),
                                   !.all_transactions = Append(@, tx_info)]
    /\ UNCHANGED <<collectorVars, decoderVars, sampler>>

\* lines 894-925: the records, the DataFrame, the CSV file, the return
ReturnDataFrame ==
    /\ tx_batch.state = "loop"
    /\ Len(tx_batch.decoded) = Len(tx_batch.tx_hashes)
    /\ LET simplified_data ==
               [j \in 1..Len(tx_batch.all_transactions) |->
                   SimplifiedRecord(tx_batch.all_transactions[j])]
       IN  tx_batch' =
             [state |-> "returned", df |-> simplified_data] @@
             [tx_batch EXCEPT !.sink = IF Truthy(tx_batch.output_file)
                                       THEN [exists |-> TRUE, rows |-> simplified_data]
                                       ELSE @]
    /\ UNCHANGED <<collectorVars, decoderVars, sampler>>

NextBatch == ProcessTransaction \/ ReturnDataFrame

SpecBatch == InitBatch /\ [][NextBatch]_vars


(***************************************************************************)
(* Properties.                                                              *)
(***************************************************************************)
RECURSIVE TrailingEmpties(_)
\* the number of empty pages at the end of the log
TrailingEmpties(log) ==
    IF log = <<>> \/ log[Len(log)].page # <<>>
    THEN 0
    ELSE 1 + TrailingEmpties(SubSeq(log, 1, Len(log) - 1))

Last(log) == log[Len(log)]
InCollector == pc \in {"loop", "returned"}

Ceil(a, b) == (a + b - 1) \div b

\* C1: the breaker ends the loop exactly when max_errors (5) page fetches in
\* a row were empty, never earlier; processed_count and the accumulated
\* records are then what they were before the first of those fetches, and
\* the function returns them normally.
C1_BreakerFiresAtFiveEmptyPages ==
    /\ stopReason = "breaker" =>
         /\ pc \in {"returned", "main_done"}
         /\ TrailingEmpties(fetchLog) = max_errors
         /\ LET first == fetchLog[Len(fetchLog) - max_errors + 1]
            IN  /\ processed_count = first.countBefore
                /\ all_sales = first.salesBefore
    /\ (variant = 1 /\ pc = "loop") => TrailingEmpties(fetchLog) < max_errors
    /\ (variant = 1 /\ stopReason = "exhausted") =>
          TrailingEmpties(fetchLog) < max_errors

\* C1 witness: the breaker fired after records had been accumulated
C1_Witness ==
    /\ stopReason = "breaker"
    /\ pc = "returned"
    /\ all_sales # <<>>
    /\ Len(fetchLog) > max_errors

\* a raw record with every field the normalizer reads present and well-formed
WellFormed(sale) ==
    sale.transactionHash # Missing /\ IsIntString(sale.blockTimestamp)

FullWellFormedPages(log) ==
    \A j \in 1..Len(log) :
        /\ Len(log[j].page) = batch_size
        /\ \A i \in 1..Len(log[j].page) : WellFormed(log[j].page[i])

\* C2: a run resumed from a checkpoint of K < T records, every page full and
\* well-formed, issues ceil((T-K)/P) page fetches and ends with
\* processed_count = T.
C2_ResumeEndsAtTarget ==
    (/\ pc = "returned"
     /\ history.loaded >= 0
     /\ history.loaded < total_records
     /\ FullWellFormedPages(fetchLog))
    => /\ Len(fetchLog) = Ceil(total_records - history.loaded, batch_size)
       /\ processed_count = total_records

RECURSIVE RunFrom(_, _, _)
\* lines 140-163 run without interruption and with every request answered:
\* the records the loop ends with
RunFrom(sales, s, ec) ==
    IF ~RangeContinues(s)
    THEN sales
    ELSE LET batch == fetch_nft_sales(batch_size, s, "ok")
         IN  IF batch = <<>>
             THEN IF BreakerTrips(NextErrorCount(ec, batch))
                  THEN sales
                  ELSE RunFrom(sales, NextSkip(s), NextErrorCount(ec, batch))
             ELSE RunFrom(sales \o Kept(batch), NextSkip(s),
                          NextErrorCount(ec, batch))

Uninterrupted == RunFrom(<<>>, 0, 0)

OrderHashes(sales) == [j \in 1..Len(sales) |-> sales[j].order_hash]

\* C3: a run killed after a checkpoint write and restarted from the
\* checkpoint ends, when every request is answered, with the records of the
\* uninterrupted run (compared by the order hash of each record).
C3_ResumptionIdempotent ==
    (/\ variant = 1
     /\ runs = 2
     /\ history.prevKilled
     /\ history.loaded >= 0
     /\ history.faults = 0
     /\ pc = "returned")
    => OrderHashes(all_sales) = OrderHashes(Uninterrupted)

\* C4 as stated: every request's offset is processed_count, and a page is
\* requested only while processed_count < total_records.
C4_OffsetIsProcessedCount ==
    \A j \in 1..Len(fetchLog) :
        /\ fetchLog[j].skip = fetchLog[j].countBefore
        /\ fetchLog[j].countBefore < total_records

\* C4 amended: the j-th request of a run has the offset K + (j-1)*batch_size,
\* K the count the run started with; the offset is never below
\* processed_count and is below total_records, so that a page is requested
\* only while processed_count < total_records.
C4_OffsetAdvancesByBatchSize ==
    \A j \in 1..Len(fetchLog) :
        /\ fetchLog[j].skip = fetchLog[1].countBefore + (j - 1) * batch_size
        /\ fetchLog[j].countBefore <= fetchLog[j].skip
        /\ fetchLog[j].skip < total_records
        /\ fetchLog[j].countBefore < total_records

\* C4 witness: a request whose offset is beyond processed_count
C4_Witness ==
    \E j \in 1..Len(fetchLog) :
        /\ fetchLog[j].skip > fetchLog[j].countBefore
        /\ fetchLog[j].page # <<>>

\* C5: processed_count is the length of the accumulated sequence when the
\* loop starts and after every batch merge, and never decreases.
C5_CountIsLength ==
    /\ InCollector => processed_count = Len(all_sales)
    /\ \A j \in 1..Len(fetchLog) :
          /\ fetchLog[j].countBefore = Len(fetchLog[j].salesBefore)
          /\ fetchLog[j].countAfter = Len(fetchLog[j].salesAfter)
          /\ fetchLog[j].countAfter >= fetchLog[j].countBefore
          /\ j > 1 => fetchLog[j].countBefore = fetchLog[j - 1].countAfter

\* C5 witness: a merge of a page of which a record was dropped, in a run
\* that started from a checkpoint
C5_Witness ==
    /\ InCollector
    /\ history.loaded > 0
    /\ \E j \in 1..Len(fetchLog) :
          /\ fetchLog[j].countAfter > fetchLog[j].countBefore
          /\ Len(fetchLog[j].page) > fetchLog[j].countAfter - fetchLog[j].countBefore

\* processed_count went from below a multiple of save_interval to it or beyond
Crossed(before, after) ==
    \E m \in 1..after : m % save_interval = 0 /\ before < m /\ m <= after

\* C6: right after a merge in which processed_count crossed a multiple of
\* save_interval (landing on it or not) or reached total_records, the
\* checkpoint holds the accumulated sequence.
C6_CheckpointOnCrossing ==
    (/\ InCollector
     /\ fetchLog # <<>>
     /\ Last(fetchLog).page # <<>>
     /\ ~Last(fetchLog).raised
     /\ \/ Crossed(Last(fetchLog).countBefore, Last(fetchLog).countAfter)
        \/ Last(fetchLog).countAfter >= total_records)
    => temp_file = ToCsv(all_sales)


\* the records of a page that lack transactionHash or whose blockTimestamp
\* is not an integer
Malformed(page) == {i \in 1..Len(page) : ~WellFormed(page[i])}
\* the records of a page whose blockTimestamp is not an integer
NonIntegerTimestamp(page) ==
    {i \in 1..Len(page) : page[i].blockTimestamp # Missing
                          /\ ~IsIntString(page[i].blockTimestamp)}

Appended(e) == SubSeq(e.salesAfter, Len(e.salesBefore) + 1, Len(e.salesAfter))

\* C7 as stated: the records appended for a page are the page's length less
\* the records lacking transactionHash or with a non-integer blockTimestamp.
C7_DropsMalformed ==
    variant = 1 =>
      \A j \in 1..Len(fetchLog) :
          Len(Appended(fetchLog[j])) =
              Len(fetchLog[j].page) - Cardinality(Malformed(fetchLog[j].page))

\* C7 amended: parse_sale_data drops the records whose blockTimestamp is not
\* an integer and only those: a record lacking transactionHash is kept, with
\* the empty string as its hash.  The records appended for a page are the
\* page's other records, in the page's order, so a drop never aborts a batch.
C7_DropsNonIntegerTimestamp ==
    variant = 1 =>
      \A j \in 1..Len(fetchLog) :
          LET page == fetchLog[j].page
              app == Appended(fetchLog[j])
              keptAt == {i \in 1..Len(page) : i \notin NonIntegerTimestamp(page)}
          IN  /\ Len(app) = Len(page) - Cardinality(NonIntegerTimestamp(page))
              /\ \A i \in keptAt :
                    LET at == Cardinality({h \in keptAt : h <= i})
                    IN  /\ app[at].order_hash = page[i].orderHash
                        /\ app[at].transaction_hash =
                              Get(page[i].transactionHash, "")

\* C7 witness: a page whose first record was dropped and whose second was
\* appended
C7_Witness ==
    /\ variant = 1
    /\ \E j \in 1..Len(fetchLog) :
          /\ Len(fetchLog[j].page) = 2
          /\ NonIntegerTimestamp(fetchLog[j].page) = {1}
          /\ Len(Appended(fetchLog[j])) = 1

\* C8: error_count is the number of empty pages fetched since the last
\* non-empty page (or since the start of the run); a page whose records were
\* all dropped resets it like any other non-empty page.
C8_ErrorCountIsTrailingEmpties ==
    (variant = 1 /\ InCollector) => error_count = TrailingEmpties(fetchLog)

\* C8 witness: an empty page, then a page all of whose records were dropped
C8_Witness ==
    /\ variant = 1
    /\ pc = "loop"
    /\ Len(fetchLog) >= 2
    /\ Last(fetchLog).page # <<>>
    /\ Last(fetchLog).countAfter = Last(fetchLog).countBefore
    /\ fetchLog[Len(fetchLog) - 1].page = <<>>
    /\ fetchLog[Len(fetchLog) - 1].errorsBefore = 0
    /\ error_count = 0

\* C9: decoding a transaction that exists and has no OrderFulfilled log of
\* the Seaport contract returns a record with has_order_fulfilled = FALSE.
C9_NoEventGivesFalse ==
    (/\ transaction_info.state # "none"
     /\ tx_found
     /\ OrderFulfilledEvents(receipt) = <<>>)
    => /\ transaction_info.state = "returned"
       /\ transaction_info.has_order_fulfilled = FALSE

\* the checkpoint file was there when the collector returned
CheckpointAtReturn ==
    history.loaded >= 0 \/ \E j \in 1..Len(fetchLog) : fetchLog[j].saved

\* C10: main deletes the checkpoint only after a run whose collector reached
\* total_records; after a run that stopped early the checkpoint is kept.
C10_CheckpointKeptAfterEarlyStop ==
    /\ (pc = "main_done" /\ CheckpointAtReturn /\ ~temp_file.exists)
          => processed_count >= total_records
    /\ (pc = "main_done" /\ CheckpointAtReturn /\ processed_count < total_records)
          => temp_file.exists

\* the count the run started with: 0 (line 122), or the number of rows of the
\* checkpoint (line 135)
StartCount == IF history.loaded >= 0 THEN history.loaded ELSE 0

\* the offset ranges [skip, skip + batch_size) of two requests
Overlap(e, f) == e.skip < f.skip + batch_size /\ f.skip < e.skip + batch_size

\* C16: the offsets a run requests are K, K + batch_size, K + 2*batch_size,
\* ..., K the count the run started with: each is exactly batch_size above
\* the one before it and no two requests overlap, whether the pages came
\* back empty, non-empty, or the processing of a page raised.
C16_OffsetsStepByBatchSize ==
    /\ fetchLog # <<>> => fetchLog[1].skip = StartCount
    /\ \A j \in 2..Len(fetchLog) :
          fetchLog[j].skip = fetchLog[j - 1].skip + batch_size
    /\ \A i, j \in 1..Len(fetchLog) :
          i # j => ~Overlap(fetchLog[i], fetchLog[j])
    /\ pc = "loop" => skip = StartCount + Len(fetchLog) * batch_size

\* C16 witness: a resumed run (K > 0) with batch_size > 1 made three
\* requests, one answered by a non-empty page and one by an empty page
C16_Witness ==
    /\ history.loaded > 0
    /\ batch_size > 1
    /\ Len(fetchLog) >= 3
    /\ \E j \in 1..Len(fetchLog) : fetchLog[j].page # <<>>
    /\ \E j \in 1..Len(fetchLog) : fetchLog[j].page = <<>>

\* the iterations the range of line 140 still holds from offset s on
Remaining(s) == IF s < total_records THEN Ceil(total_records - s, batch_size) ELSE 0

\* C17: a run makes at most ceil((T - K) / P) fetches whatever the answers
\* (empty, non-empty, an error raised), and none when K >= T: while the loop
\* runs, the fetches made plus the iterations left in the range are exactly
\* that number, so every iteration brings the loop one step nearer its end.
C17_FetchesBounded ==
    /\ Len(fetchLog) <= Remaining(StartCount)
    /\ pc = "loop" => /\ Remaining(skip) >= 1
                      /\ Len(fetchLog) + Remaining(skip) = Remaining(StartCount)
    /\ (pc = "returned" /\ stopReason = "exhausted")
          => Len(fetchLog) = Remaining(StartCount)
    /\ (InCollector /\ StartCount >= total_records)
          => fetchLog = <<>> /\ pc = "returned"

\* C17 witness: a run that started from a checkpoint ran its range to the
\* end, one of its fetches was answered by an empty page
C17_Witness ==
    /\ pc = "returned"
    /\ stopReason = "exhausted"
    /\ history.loaded > 0
    /\ Len(fetchLog) = Ceil(total_records - history.loaded, batch_size)
    /\ Len(fetchLog) >= 2
    /\ \E j \in 1..Len(fetchLog) : fetchLog[j].page = <<>>

\* the positions in the remote source that the request of entry e asked for
RequestedRange(e) == (e.skip + 1)..(e.skip + batch_size)

\* C18: in one run an offset whose fetch came back empty, or whose batch
\* processing raised, is never requested again; and once an empty page was
\* followed by a non-empty one, the accumulated sequence holds no record of
\* the offset range of the empty page, while processed_count differs from
\* the offset requested next.
C18_EmptyPageRangeIsLost ==
    /\ \A i, j \in 1..Len(fetchLog) :
          (i < j /\ (fetchLog[i].page = <<>> \/ fetchLog[i].raised))
             => fetchLog[j].skip # fetchLog[i].skip
    /\ \A j \in 1..(Len(fetchLog) - 1) :
          (fetchLog[j].page = <<>> /\ fetchLog[j + 1].page # <<>>)
             => /\ \A k \in 1..Len(fetchLog[j + 1].salesAfter) :
                      fetchLog[j + 1].salesAfter[k].order_hash
                          \notin RequestedRange(fetchLog[j])
                /\ fetchLog[j + 1].countBefore # fetchLog[j + 1].skip

\* the event decode_transaction reads: the first OrderFulfilled log (line 778)
EventData == OrderFulfilledEvents(receipt)[1]
Decoded == transaction_info.state = "returned"

RECURSIVE CurrencyWei(_)
\* the amounts, in wei, of the items of type NATIVE (0) or ERC20 (1)
CurrencyWei(items) ==
    IF items = <<>>
    THEN 0
    ELSE (IF Head(items).itemType \in {0, 1} THEN Head(items).amount ELSE 0)
            + CurrencyWei(Tail(items))

\* C11: total_price_eth of a decoded event is the sum of the amounts of the
\* consideration items of type NATIVE (0) or ERC20 (1), whoever the recipient,
\* divided by 10^18; items of another type add nothing, and without an item
\* of type 0 or 1 the total is 0.
C11_TotalIsSumOfCurrencyItems ==
    Decoded =>
      LET wei == CurrencyWei(EventData.consideration)
          total == transaction_info.total_price_eth
      IN  /\ wei = 0 => total.mantissa = 0
          /\ wei > 0 => total = [mantissa |-> wei, exponent |-> -18]
          /\ \A j \in 1..Len(EventData.consideration) :
                ("amount_eth" \in DOMAIN transaction_info.payment_items[j])
                   <=> EventData.consideration[j].itemType \in {0, 1}

\* C11 witness: a NATIVE item for one recipient and an ERC20 item for
\* another, the total is the sum of both
C11_Witness ==
    /\ Decoded
    /\ Len(EventData.consideration) = 2
    /\ EventData.consideration[1].itemType = 0
    /\ EventData.consideration[2].itemType = 1
    /\ EventData.consideration[1].recipient # EventData.consideration[2].recipient
    /\ transaction_info.total_price_eth.mantissa =
          EventData.consideration[1].amount + EventData.consideration[2].amount

\* the item types the table of get_item_type_name holds (lines 738-742)
Recognized == {0, 1, 2}

\* C12: get_item_type_name gives "NATIVE", "ERC20", "ERC721" for 0, 1, 2 and
\* "UNKNOWN (v)" for every other value v, and decoding an event whose offer
\* items are all of unrecognized type does not fail.
C12_UnknownTypeNeverFails ==
    /\ get_item_type_name(0) = "NATIVE"
    /\ get_item_type_name(1) = "ERC20"
    /\ get_item_type_name(2) = "ERC721"
    /\ \A v \in ItemTypes \ Recognized :
          get_item_type_name(v) = "UNKNOWN (" \o ToString(v) \o ")"
    /\ (/\ transaction_info.state = "raised"
        /\ tx_found
        /\ OrderFulfilledEvents(receipt) # <<>>)
          => \E j \in 1..Len(EventData.offer) :
                 EventData.offer[j].itemType \in Recognized

KnownClasses == {"NATIVE", "ERC20", "ERC721", "ERC1155"}

\* C13: an offer item of a decoded event is marked is_nft, with
\* collection_name and opensea_link, exactly when its type is in 2..5, and
\* an item marked is_nft is named after a known class (NATIVE, ERC20, ERC721,
\* ERC1155), not UNKNOWN.
C13_NftItemsCarryKnownClass ==
    Decoded =>
      \A j \in 1..Len(transaction_info.nft_items) :
          LET info == transaction_info.nft_items[j]
          IN  /\ info.is_nft <=> EventData.offer[j].itemType \in 2..5
              /\ info.is_nft <=> "collection_name" \in DOMAIN info
              /\ info.is_nft <=> "opensea_link" \in DOMAIN info
              /\ info.is_nft => info.item_type_name \in KnownClasses

\* the index labels of the rows of a DataFrame
Labels(df) == {df[i].index : i \in 1..Len(df)}

\* C14: when the dataset has more than sample_size rows the sample has
\* exactly sample_size rows, no row twice; its first floor(sample_size / 2)
\* rows are rows of greatest timestamp (no row outside them has a greater
\* timestamp) and the other rows are rows of the dataset outside them;
\* otherwise the sample is the whole dataset.
C14_SampleIsRecentHalfPlusRest ==
    sampler.state = "returned" =>
      LET df == sampler.sales_df
          size == sampler.sample_size
          out == sampler.llm_sales
          half == size \div 2
          recent == {out[i].index : i \in 1..Min(half, Len(out))}
      IN  /\ Labels(out) \subseteq Labels(df)
          /\ Cardinality(Labels(out)) = Len(out)
          /\ \A i \in 1..Len(out) :
                \E k \in 1..Len(df) :
                   df[k].index = out[i].index /\ df[k].timestamp = out[i].timestamp
          /\ Len(df) > size =>
                /\ Len(out) = size
                /\ Cardinality(recent) = half
                /\ \A i \in 1..half, k \in 1..Len(df) :
                      df[k].index \notin recent => out[i].timestamp >= df[k].timestamp
                /\ \A i \in (half + 1)..size : out[i].index \notin recent
          /\ Len(df) <= size => Labels(out) = Labels(df) /\ Len(out) = Len(df)

\* C14 witness: 4 rows not all of one timestamp, sample_size 3: the most
\* recent row and two of the three others
C14_Witness ==
    /\ sampler.state = "returned"
    /\ Len(sampler.sales_df) = 4
    /\ sampler.sample_size = 3
    /\ Len(sampler.llm_sales) = 3
    /\ \E i, j \in 1..4 :
          sampler.sales_df[i].timestamp # sampler.sales_df[j].timestamp
    /\ sampler.llm_sales[1].timestamp > sampler.llm_sales[2].timestamp

\* the decode of the hash fails
DecodeFails(tx_hash) == DecodeHash(tx_hash, etherscan).state = "raised"

====
